---- MODULE Spec2Model ----
(***************************************************************************)
(* Model of the ktCloud CLI client's encrypted-transfer core:              *)
(*   pkg.ApiRequest      (src/pkg/api.go)                                  *)
(*   pkg.DownloadFile    (src/README.md, lines 148-266)                    *)
(*   internal.ActionFilesList, ActionDownload, ActionUpload, ActionApiCall,*)
(*   ActionAskForToken   (src/unnamed/part_000)                            *)
(* One DownloadFile call is a sequence of steps, one per network round     *)
(* trip or I/O operation; the server, the HTTP body reader and the         *)
(* destination writer are the environment and answer nondeterministically. *)
(***************************************************************************)
EXTENDS Integers, Sequences, FiniteSets, TLC

\* ------------------------------------------------------------------ bounds
MaxBody == 2                      \* longest HTTP body, in bytes

\* ------------------------------------------------------------ value domains
Byte == {0, 1}
NoFail == 0 - 1                   \* "this reader / writer never fails"
Nil == <<>>                       \* the nil error; an error is a chain of messages

\* a call into the key or OpenPGP code, with its string arguments and outcome
Call(fn, a, ok) == [fn |-> fn, args |-> a, ok |-> ok]

apiUrl == "https://resistance.go-kt.com/json-rpc"

Tokens == {"tok"}
FileIds == {"", "f1"}
Passwords == {"", "pw", "bad"}
PrivateKeys == {"", "encA", "privA", "privB", "junk"}
PublicKeys == {"", "pubA"}
HttpStatuses == {200, 500}
ServerMessages == {"", "denied"}
Urls == {"https://cdn/f1"}

\* ------------------------------------------------------------------- state
VARIABLES
  pc,             \* position of the running operation
  config,         \* the CLI's Config
  flags,          \* the command-line flags the running action has read
  fs,             \* the local file system: path -> [kind, data]
  savePath,       \* ActionDownload's local savePath
  peer,           \* a second DownloadFile call that shares the caller's CryptoInfo
  caller,         \* who entered DownloadFile: "none", "lib" or "ActionDownload"
  token, fileId,  \* DownloadFile arguments
  cryptoArg,      \* the *CryptoInfo the caller passed: "nil" or "caller"
  writerLimit,    \* bytes the destination writer accepts before it fails
  cryptoInfo,     \* the call-local *CryptoInfo: "nil", "caller" or "fresh"
  heap,           \* the CryptoInfo objects the pointer may refer to
  written,        \* bytes the destination writer has accepted
  sent,           \* outbound requests, in order
  filesList, name, encrypted, mimeType, disk,
  downloadRequest, fileUrl,
  resp,           \* the HTTP response of the content fetch
  buf, numBytes,
  err,            \* the named result err
  errBlock,       \* the err declared by := inside the "if encrypted" block
  privateKeyRing, decrypted,
  ret,            \* (fileName, numBytes, err) once returned
  calls,          \* calls into the key and OpenPGP functions, in order
  printed         \* console output of the CLI actions

env == <<config, flags, fs, savePath, peer>>
args == <<env, token, fileId, cryptoArg, writerLimit, caller>>
crypto == <<cryptoInfo, heap>>
meta == <<filesList, name, encrypted, mimeType, disk>>
urlv == <<downloadRequest, fileUrl>>
body == <<resp, buf>>
keys == <<privateKeyRing, decrypted>>
errs == <<err, errBlock>>
vars == <<pc, args, crypto, written, sent, meta, urlv, body, numBytes, errs, keys,
          ret, calls, printed>>

\* ------------------------------------------------------- JSON (interface{})
JNil == [kind |-> "nil"]
JStr(s) == [kind |-> "string", s |-> s]
JNum(n) == [kind |-> "number", n |-> n]
JBool(b) == [kind |-> "bool", b |-> b]
JArr(es) == [kind |-> "array", elems |-> es]
JObj(m) == [kind |-> "object", fields |-> m]

EmptyMap == [k \in {} |-> JNil]

\* m[k] on a Go map: the zero value (nil interface) when the key is absent
Get(m, k) == IF k \in DOMAIN m THEN m[k] ELSE JNil

\* all maps from a subset of the keys of choices to the values offered for it
MapsOver(choices) ==
  UNION {[D -> UNION {choices[k] : k \in D}] : D \in SUBSET DOMAIN choices}

WellTyped(choices, m) == \A k \in DOMAIN m : m[k] \in choices[k]

\* ---------------------------------------------------------------- errors
New(msg) == <<msg>>
\* fmt.Errorf("<ctx>: %w", e)
Wrap(ctx, e) == <<ctx>> \o e

\* ------------------------------------------------------------- ApiRequest
\* variant: the passphrase travels with every request
ApiRequestBody_Leak(tok, method, params) ==
  [method |-> method,
   params |-> (params @@ ("token" :> JStr(tok)))
                @@ ("passwd" :> JStr(heap.caller.Password))]

\* variant: the token argument always wins
ApiRequestBody_Override(tok, method, params) ==
  [method |-> method,
   params |-> ("token" :> JStr(tok)) @@ params]

\* the JSON-RPC body ApiRequest sends
ApiRequestBody(tok, method, params) ==
  [method |-> method,
   params |-> IF "token" \in DOMAIN params THEN params
              ELSE params @@ ("token" :> JStr(tok))]

\* a map argument that may be nil
NilMap == [nil |-> TRUE, m |-> EmptyMap]
MapOf(m) == [nil |-> FALSE, m |-> m]

\* "if params == nil { params = make(...) }"
MakeIfNil(p) == IF p.nil THEN EmptyMap ELSE p.m

\* the POST that carries it
RpcMsg(tok, method, params) ==
  [typ |-> "rpc", url |-> apiUrl, body |-> ApiRequestBody(tok, method, params)]

GetMsg(u) == [typ |-> "get", url |-> u, body |-> [method |-> "", params |-> EmptyMap]]

\* what ApiRequest returns: (nil, err) when the transport or the JSON decoding
\* failed, else the decoded ApiResponse; the HTTP status is never looked at
NoResponse ==
  [err |-> New("transport error"), status |-> 0, Code |-> 0, Message |-> "",
   Result |-> EmptyMap]

Response(status, code, msg, result) ==
  [err |-> Nil, status |-> status, Code |-> code, Message |-> msg, Result |-> result]

ApiReplies(results, sample) ==
  {NoResponse}
    \cup {Response(st, 0, "", r) : st \in HttpStatuses, r \in results}
    \cup {Response(st, 7, m, r) : st \in HttpStatuses, m \in ServerMessages,
                                  r \in {EmptyMap} \cup sample}

\* -------------------------------------------------- files.getById results
FileInfoChoices ==
  [name      |-> {JStr("report.pdf"), JNum(5)},
   encrypted |-> {JBool(TRUE), JBool(FALSE), JStr("yes")},
   mime      |-> {JStr("application/pdf"), JNil},
   disk      |-> {JStr("d1"), JNum(1)}]

FileInfoObjs == {m \in MapsOver(FileInfoChoices) : WellTyped(FileInfoChoices, m)}

GoodFileInfo(enc) ==
  [name |-> JStr("report.pdf"), encrypted |-> JBool(enc),
   mime |-> JStr("application/pdf"), disk |-> JStr("d1")]

GetByIdChoices ==
  [count |-> {JNum(0), JNum(1), JStr("1")},
   list  |-> {JStr("x"), JArr(<<>>), JArr(<<JNum(7)>>)}
               \cup {JArr(<<JObj(fi)>>) : fi \in FileInfoObjs}]

GetByIdResults == {m \in MapsOver(GetByIdChoices) : WellTyped(GetByIdChoices, m)}

GoodGetById(enc) == [count |-> JNum(1), list |-> JArr(<<JObj(GoodFileInfo(enc))>>)]

GetByIdReplies == ApiReplies(GetByIdResults, {GoodGetById(TRUE), GoodGetById(FALSE)})

\* ------------------------------------------------ files.download results
DownloadChoices == [url |-> {JStr("https://cdn/f1"), JNum(3)}]

DownloadResults == {m \in MapsOver(DownloadChoices) : WellTyped(DownloadChoices, m)}

GoodDownload == [url |-> JStr("https://cdn/f1")]

DownloadReplies == ApiReplies(DownloadResults, {GoodDownload})

\* ---------------------------------------------------------- key material
\* "encA" is disk A's private key protected by the passphrase "pw", "privA"
\* the same key unprotected, "privB" another disk's unprotected key
KeyOf(priv) ==
  CASE priv = "encA" -> "A" [] priv = "privA" -> "A" [] priv = "privB" -> "B"
    [] OTHER -> ""

Unlocks(pass, priv) ==
  \/ priv = "encA" /\ pass = "pw"
  \/ priv \in {"privA", "privB"}

\* the private key with its passphrase protection removed
Unlocked(priv) == IF priv = "encA" THEN "privA" ELSE priv

CryptoInfos ==
  [EncryptedCryptoKey : {""}, PublicKey : PublicKeys, Password : Passwords,
   RawCryptoKey : PrivateKeys]

ZeroInfo == [EncryptedCryptoKey |-> "", PublicKey |-> "", Password |-> "",
             RawCryptoKey |-> ""]

IsCryptoReady(ci) == ci.RawCryptoKey # ""

NoKeyRing == [built |-> FALSE, key |-> "", cleared |-> FALSE]

\* GetKeyRings(publicKey, privateKey, passphrase): error, unlocked private ring
GetKeyRings(pub, priv, pass) ==
  IF pub # "pubA" THEN [err |-> New("malformed public key"), ring |-> NoKeyRing]
  ELSE IF ~Unlocks(pass, priv)
    THEN [err |-> New("failed to decrypt private key"), ring |-> NoKeyRing]
  ELSE [err |-> Nil, ring |-> [built |-> TRUE, key |-> KeyOf(priv), cleared |-> FALSE]]

\* disk key material as the server may return it
DiskKeyChoices ==
  [cryptoKey |-> {JStr("encA"), JStr("junk")},
   publicKey |-> {JStr("pubA")}]

DiskKeyResults == {m \in MapsOver(DiskKeyChoices) : WellTyped(DiskKeyChoices, m)}

GoodDiskKeys == [cryptoKey |-> JStr("encA"), publicKey |-> JStr("pubA")]

DiskKeyReplies == ApiReplies(DiskKeyResults, {GoodDiskKeys})

StrOf(j) == IF j.kind = "string" THEN j.s ELSE ""

\* GetCryptoInfo(token, diskID, password), given the server's reply to its
\* disk key request: a fresh CryptoInfo, or an error
GetCryptoInfo(password, reply) ==
  LET enc == StrOf(Get(reply.Result, "cryptoKey"))
      pub == StrOf(Get(reply.Result, "publicKey"))
      kr  == GetKeyRings(pub, enc, password)
  IN  IF password = "" THEN [err |-> New("no password provided"), info |-> ZeroInfo]
      ELSE IF reply.err # Nil THEN [err |-> reply.err, info |-> ZeroInfo]
      ELSE IF reply.Code # 0 THEN [err |-> New(reply.Message), info |-> ZeroInfo]
      ELSE IF kr.err # Nil THEN [err |-> kr.err, info |-> ZeroInfo]
      ELSE [err |-> Nil,
            info |-> [EncryptedCryptoKey |-> enc, PublicKey |-> pub,
                      Password |-> password, RawCryptoKey |-> Unlocked(enc)]]

\* -------------------------------------------------------- OpenPGP messages
\* a message to key A is the marker byte 1 followed by the masked plaintext
Flip(bytes) == [i \in 1..Len(bytes) |-> 1 - bytes[i]]

\* privateKeyRing.Decrypt(message, nil, 0)
Decrypt(ring, message) ==
  IF ring.built /\ ~ring.cleared /\ ring.key = "A" /\ Len(message) >= 1
     /\ message[1] = 1
  THEN [err |-> Nil, plain |-> Flip(Tail(message))]
  ELSE [err |-> New("gopenpgp: unable to decrypt message"), plain |-> <<>>]

\* ------------------------------------------------------------------ io.Copy
RECURSIVE SeqsUpTo(_)
SeqsUpTo(n) ==
  IF n = 0 THEN {<<>>}
  ELSE LET shorter == SeqsUpTo(n - 1)
       IN  shorter \cup {Append(s, b) : s \in {t \in shorter : Len(t) = n - 1}, b \in Byte}

Bodies == SeqsUpTo(MaxBody)

\* a reader fails after failAt bytes, a writer after accepting limit bytes
FailPoints(n) == {NoFail} \cup 0..n

\* io.Copy(dst, src): every byte read is written before a read error is
\* reported; a failed or short write stops the copy
IoCopy(data, failAt, limit) ==
  LET avail == IF failAt = NoFail THEN Len(data) ELSE failAt
  IN  IF limit # NoFail /\ limit < avail
      THEN [n |-> limit, err |-> New("write error"), out |-> SubSeq(data, 1, limit)]
      ELSE [n |-> avail,
            err |-> IF failAt = NoFail THEN Nil ELSE New("read error"),
            out |-> SubSeq(data, 1, avail)]

\* ------------------------------------------------------- initial state
\* the flags' defaults
NoFlags ==
  [NotInteractive |-> FALSE, Download |-> "", DownloadPath |-> "", Upload |-> "",
   UploadName |-> "", StdIn |-> FALSE, Method |-> "", Params |-> ""]

File(data) == [kind |-> "file", data |-> data]
Dir == [kind |-> "dir", data |-> <<>>]

\* the file system the client starts in
FS0 == [p \in {"dir", "old", "docs/a.txt", "a.txt"} |->
          IF p = "dir" THEN Dir ELSE File(<<1>>)]

NoPeer == [pc |-> "off", ptr |-> "nil", encrypted |-> FALSE, disk |-> "",
           resolves |-> 0, err |-> Nil, written |-> <<>>]

NoRet == [fileName |-> "", numBytes |-> 0, err |-> Nil]
NoResp == [err |-> Nil, status |-> 0, body |-> <<>>, failAt |-> NoFail,
           open |-> FALSE, closed |-> FALSE]

Init ==
  /\ pc = "idle"
  /\ config \in [Token : {"", "tok"}]
  /\ flags = NoFlags
  /\ fs = FS0
  /\ savePath = ""
  /\ peer = NoPeer
  /\ caller = "none"
  /\ token = "" /\ fileId = ""
  /\ cryptoArg = "nil" /\ writerLimit = NoFail
  /\ cryptoInfo = "nil"
  /\ heap = [caller |-> ZeroInfo, fresh |-> ZeroInfo, peer |-> ZeroInfo]
  /\ written = <<>>
  /\ sent = <<>>
  /\ filesList = NoResponse /\ name = "" /\ encrypted = FALSE
  /\ mimeType = "" /\ disk = ""
  /\ downloadRequest = NoResponse /\ fileUrl = ""
  /\ resp = NoResp
  /\ buf = <<>> /\ numBytes = 0 /\ err = Nil /\ errBlock = Nil
  /\ privateKeyRing = NoKeyRing /\ decrypted = <<>>
  /\ ret = NoRet
  /\ calls = <<>>
  /\ printed = <<>>

\* return fileName, n, e
Return(fn, n, e) ==
  /\ pc' = "done"
  /\ ret' = [fileName |-> fn, numBytes |-> n, err |-> e]

\* the same once "defer resp.Body.Close()" is registered
ReturnClosing(fn, n, e) ==
  /\ Return(fn, n, e)
  /\ resp' = [resp EXCEPT !.closed = TRUE]

\* a failed single-value type assertion, or a nil dereference
Panic ==
  /\ pc' = "panic"
  /\ ret' = ret

\* ------------------------------------------------------------ DownloadFile
\* entry: the caller's arguments, and the file id check
\* variant: an empty file id is let through
Enter_NoIdCheck(t, f, p, ci, w) ==
  /\ token' = t /\ fileId' = f
  /\ writerLimit' = w
  /\ cryptoArg' = p
  /\ cryptoInfo' = p
  /\ heap' = [heap EXCEPT !.caller = ci]
  /\ pc' = "Lookup" /\ ret' = ret

\* the call itself: the arguments are bound and the file id is checked
Enter(t, f, p, ci, w) ==
  /\ token' = t /\ fileId' = f
  /\ writerLimit' = w
  /\ cryptoArg' = p
  /\ cryptoInfo' = p
  /\ heap' = [heap EXCEPT !.caller = ci]
  /\ IF f = "" THEN Return("", 0, New("file id is required"))
     ELSE pc' = "Lookup" /\ ret' = ret

\* a call made by a user of the library
DownloadFile ==
  /\ pc = "idle"
  /\ \E t \in Tokens, f \in FileIds, p \in {"nil", "caller"}, ci \in CryptoInfos,
        w \in {NoFail} \cup 0..(MaxBody - 1) :
       /\ p = "nil" => ci = ZeroInfo
       /\ Enter(t, f, p, ci, w)
  /\ caller' = "lib"
  /\ UNCHANGED <<env, written, sent, meta, urlv, body, numBytes, errs, keys, calls,
                 printed>>

Fail(e) == [out |-> "return", err |-> e, name |-> "", encrypted |-> FALSE,
            mime |-> "", disk |-> ""]
Crash == [out |-> "panic", err |-> Nil, name |-> "", encrypted |-> FALSE,
          mime |-> "", disk |-> ""]

\* variant: the count of matching records is not looked at
ParseGetById_NoCount(reply) ==
  LET rawList == Get(reply.Result, "list")
      first   == rawList.elems[1]
      fi      == first.fields
  IN  IF reply.err # Nil THEN Fail(reply.err)
      ELSE IF reply.Code # 0 THEN Fail(New(reply.Message))
      ELSE IF "list" \notin DOMAIN reply.Result THEN Fail(New("bad file get response"))
      ELSE IF rawList.kind # "array"
        THEN Fail(New("files list parameter is not a list itself"))
      ELSE IF Len(rawList.elems) = 0
        THEN Fail(New("file not found or you have not access to it"))
      ELSE IF first.kind # "object" THEN Crash
      ELSE IF Get(fi, "name").kind # "string" THEN Crash
      ELSE IF Get(fi, "encrypted").kind # "bool" THEN Crash
      ELSE IF Get(fi, "mime").kind # "string" THEN Crash
      ELSE IF Get(fi, "disk").kind # "string" THEN Crash
      ELSE [out |-> "ok", err |-> Nil, name |-> fi.name.s,
            encrypted |-> fi.encrypted.b, mime |-> fi.mime.s, disk |-> fi.disk.s]

\* variant: the JSON-RPC error code is not looked at
ParseGetById_NoCode(reply) ==
  LET cnt     == Get(reply.Result, "count")
      count   == IF cnt.kind = "number" THEN cnt.n ELSE 0
      rawList == Get(reply.Result, "list")
      first   == rawList.elems[1]
      fi      == first.fields
  IN  IF reply.err # Nil THEN Fail(reply.err)
      ELSE IF count = 0 THEN Fail(New("file not found or you have not access to it"))
      ELSE IF "list" \notin DOMAIN reply.Result THEN Fail(New("bad file get response"))
      ELSE IF rawList.kind # "array"
        THEN Fail(New("files list parameter is not a list itself"))
      ELSE IF Len(rawList.elems) = 0
        THEN Fail(New("file not found or you have not access to it"))
      ELSE IF first.kind # "object" THEN Crash
      ELSE IF Get(fi, "name").kind # "string" THEN Crash
      ELSE IF Get(fi, "encrypted").kind # "bool" THEN Crash
      ELSE IF Get(fi, "mime").kind # "string" THEN Crash
      ELSE IF Get(fi, "disk").kind # "string" THEN Crash
      ELSE [out |-> "ok", err |-> Nil, name |-> fi.name.s,
            encrypted |-> fi.encrypted.b, mime |-> fi.mime.s, disk |-> fi.disk.s]

\* what DownloadFile makes of the files.getById reply
ParseGetById(reply) ==
  LET cnt     == Get(reply.Result, "count")
      count   == IF cnt.kind = "number" THEN cnt.n ELSE 0
      rawList == Get(reply.Result, "list")
      first   == rawList.elems[1]
      fi      == first.fields
  IN  IF reply.err # Nil THEN Fail(reply.err)
      ELSE IF reply.Code # 0 THEN Fail(New(reply.Message))
      ELSE IF count = 0 THEN Fail(New("file not found or you have not access to it"))
      ELSE IF "list" \notin DOMAIN reply.Result THEN Fail(New("bad file get response"))
      ELSE IF rawList.kind # "array"
        THEN Fail(New("files list parameter is not a list itself"))
      ELSE IF Len(rawList.elems) = 0
        THEN Fail(New("file not found or you have not access to it"))
      ELSE IF first.kind # "object" THEN Crash
      ELSE IF Get(fi, "name").kind # "string" THEN Crash
      ELSE IF Get(fi, "encrypted").kind # "bool" THEN Crash
      ELSE IF Get(fi, "mime").kind # "string" THEN Crash
      ELSE IF Get(fi, "disk").kind # "string" THEN Crash
      ELSE [out |-> "ok", err |-> Nil, name |-> fi.name.s,
            encrypted |-> fi.encrypted.b, mime |-> fi.mime.s, disk |-> fi.disk.s]

\* Lookup: the files.getById round trip and the reading of its result
Lookup ==
  /\ pc = "Lookup"
  /\ \E reply \in GetByIdReplies :
       LET r == ParseGetById(reply)
       IN  /\ sent' = Append(sent, RpcMsg(token, "files.getById", "file" :> JStr(fileId)))
           /\ filesList' = reply
           /\ name' = r.name /\ encrypted' = r.encrypted
           /\ mimeType' = r.mime /\ disk' = r.disk
           /\ CASE r.out = "return" -> Return("", 0, r.err)
                [] r.out = "panic" -> Panic
                [] OTHER -> pc' = "AuthCheck" /\ ret' = ret
  /\ UNCHANGED <<args, crypto, written, urlv, body, numBytes, errs, keys, calls,
                 printed>>

\* variant: a missing CryptoInfo is let through
CheckCrypto_NoNilCheck(isEncrypted, ptr, ci, resolved) ==
  IF ~(isEncrypted /\ ptr # "nil" /\ ~IsCryptoReady(ci)) THEN [out |-> "pass", err |-> Nil]
  ELSE IF ci.Password = "" /\ ci.RawCryptoKey = ""
    THEN [out |-> "return", err |-> New("file is encrypted and no password or keys provided")]
  ELSE IF ci.RawCryptoKey = ""
    THEN IF resolved.err # Nil
         THEN [out |-> "return", err |-> Wrap("failed to get crypto info", resolved.err)]
         ELSE [out |-> "resolved", err |-> Nil]
  ELSE [out |-> "return", err |-> New("file is encrypted and no any data provided")]

\* variant: the outcome of the key resolution is not looked at
CheckCrypto_IgnoreResolve(isEncrypted, ptr, ci, resolved) ==
  IF ~(isEncrypted /\ (ptr = "nil" \/ ~IsCryptoReady(ci))) THEN [out |-> "pass", err |-> Nil]
  ELSE IF ptr = "nil"
    THEN [out |-> "return",
          err |-> New("file is encrypted and no any crypto cryptoInfo provided")]
  ELSE IF ci.Password = "" /\ ci.RawCryptoKey = ""
    THEN [out |-> "return", err |-> New("file is encrypted and no password or keys provided")]
  ELSE IF ci.RawCryptoKey = "" THEN [out |-> "pass", err |-> Nil]
  ELSE [out |-> "return", err |-> New("file is encrypted and no any data provided")]

\* what the encrypted-file credential check decides, given the CryptoInfo the
\* call holds (if any) and the outcome GetCryptoInfo would have
CheckCrypto(isEncrypted, ptr, ci, resolved) ==
  IF ~(isEncrypted /\ (ptr = "nil" \/ ~IsCryptoReady(ci))) THEN [out |-> "pass", err |-> Nil]
  ELSE IF ptr = "nil"
    THEN [out |-> "return",
          err |-> New("file is encrypted and no any crypto cryptoInfo provided")]
  ELSE IF ci.Password = "" /\ ci.RawCryptoKey = ""
    THEN [out |-> "return", err |-> New("file is encrypted and no password or keys provided")]
  ELSE IF ci.RawCryptoKey = ""
    THEN IF resolved.err # Nil
         THEN [out |-> "return", err |-> Wrap("failed to get crypto info", resolved.err)]
         ELSE [out |-> "resolved", err |-> Nil]
  ELSE [out |-> "return", err |-> New("file is encrypted and no any data provided")]

\* variant: the resolver is also called when there is no password
NeedsResolve_Always(isEncrypted, ptr, ci) ==
  /\ isEncrypted /\ ptr # "nil" /\ ~IsCryptoReady(ci)
  /\ ci.RawCryptoKey = ""

\* whether the check reaches the GetCryptoInfo call
NeedsResolve(isEncrypted, ptr, ci) ==
  /\ isEncrypted /\ ptr # "nil" /\ ~IsCryptoReady(ci)
  /\ ~(ci.Password = "" /\ ci.RawCryptoKey = "")
  /\ ci.RawCryptoKey = ""

\* variant: the resolved keys are also copied into the caller's object
StoreResolved_InPlace(h, slot, info) == [h EXCEPT ![slot] = info, !.caller = info]

\* "cryptoInfo, err = GetCryptoInfo(...)": the object GetCryptoInfo built
\* takes a slot of its own, and the call's reference moves there
StoreResolved(h, slot, info) == [h EXCEPT ![slot] = info]

\* AuthCheck: the credential check, with the key resolution it may call
AuthCheck ==
  /\ pc = "AuthCheck"
  /\ LET ci == IF cryptoInfo = "nil" THEN ZeroInfo ELSE heap[cryptoInfo]
     IN  \E reply \in DiskKeyReplies :
           LET resolved == GetCryptoInfo(ci.Password, reply)
               c == CheckCrypto(encrypted, cryptoInfo, ci, resolved)
           IN  /\ IF NeedsResolve(encrypted, cryptoInfo, ci)
                  THEN /\ sent' = Append(sent,
                                   RpcMsg(token, "disk key material", "disk" :> JStr(disk)))
                       /\ calls' = Append(calls, Call("GetCryptoInfo",
                                     <<token, disk, ci.Password>>, resolved.err = Nil))
                  ELSE sent' = sent /\ calls' = calls /\ reply = NoResponse
               /\ IF c.out = "resolved"
                  THEN cryptoInfo' = "fresh"
                       /\ heap' = StoreResolved(heap, "fresh", resolved.info)
                  ELSE UNCHANGED crypto
               /\ IF c.out = "return" THEN Return("", 0, c.err)
                  ELSE pc' = "UrlResolve" /\ ret' = ret
  /\ UNCHANGED <<args, written, meta, urlv, body, numBytes, errs, keys, printed>>

\* variant: the JSON-RPC error code of files.download is not looked at
ParseDownload_NoCode(reply) ==
  LET u == Get(reply.Result, "url")
  IN  IF reply.err # Nil THEN [err |-> reply.err, url |-> ""]
      ELSE IF u.kind # "string" THEN [err |-> New("failed to get file url"), url |-> ""]
      ELSE [err |-> Nil, url |-> u.s]

\* what DownloadFile makes of the files.download reply
ParseDownload(reply) ==
  LET u == Get(reply.Result, "url")
  IN  IF reply.err # Nil THEN [err |-> reply.err, url |-> ""]
      ELSE IF reply.Code # 0 THEN [err |-> New(reply.Message), url |-> ""]
      ELSE IF u.kind # "string" THEN [err |-> New("failed to get file url"), url |-> ""]
      ELSE [err |-> Nil, url |-> u.s]

\* UrlResolve: the files.download round trip
UrlResolve ==
  /\ pc = "UrlResolve"
  /\ \E reply \in DownloadReplies :
       LET r == ParseDownload(reply)
       IN  /\ sent' = Append(sent, RpcMsg(token, "files.download", "file" :> JStr(fileId)))
           /\ downloadRequest' = reply
           /\ fileUrl' = r.url
           /\ IF r.err # Nil THEN Return("", 0, r.err)
              ELSE pc' = "Fetch" /\ ret' = ret
  /\ UNCHANGED <<args, crypto, written, meta, body, numBytes, errs, keys, calls,
                 printed>>

\* what http.Get may answer
HttpReplies ==
  {[err |-> New("get failed"), status |-> 0, body |-> <<>>, failAt |-> NoFail,
    open |-> FALSE, closed |-> FALSE]}
    \cup {[err |-> Nil, status |-> 200, body |-> b, failAt |-> f,
           open |-> TRUE, closed |-> FALSE] : b \in Bodies, f \in FailPoints(MaxBody)}
    \cup {[err |-> Nil, status |-> 404, body |-> b, failAt |-> NoFail,
           open |-> TRUE, closed |-> FALSE] : b \in {<<>>, <<1, 0>>}}

\* variant: the status of the response is not looked at
FetchError_NoStatus(r) ==
  IF r.err # Nil THEN r.err
  ELSE Nil

\* the check of the fetch's outcome
FetchError(r) ==
  IF r.err # Nil THEN r.err
  ELSE IF r.status # 200 THEN New("bad response status code")
  ELSE Nil

\* Fetch: the HTTP GET of the content URL and the status check
Fetch ==
  /\ pc = "Fetch"
  /\ \E r \in HttpReplies :
       /\ r.failAt # NoFail => r.failAt <= Len(r.body)
       /\ sent' = Append(sent, GetMsg(fileUrl))
       /\ IF r.err # Nil THEN Return("", 0, FetchError(r)) /\ resp' = r
          ELSE IF FetchError(r) # Nil
            THEN Return("", 0, FetchError(r)) /\ resp' = [r EXCEPT !.closed = TRUE]
          ELSE /\ resp' = r
               /\ pc' = IF encrypted THEN "ReadBody" ELSE "CopyBody"
               /\ ret' = ret
  /\ UNCHANGED <<args, crypto, written, meta, urlv, buf, numBytes, errs, keys, calls,
                 printed>>

\* encrypted branch: the whole body is copied into the buffer
ReadBody ==
  /\ pc = "ReadBody"
  /\ LET c == IoCopy(resp.body, resp.failAt, NoFail)
     IN  /\ numBytes' = c.n
         /\ err' = c.err
         /\ buf' = c.out
  /\ pc' = "KeyRings"
  /\ UNCHANGED <<args, crypto, written, sent, meta, urlv, resp, errBlock, keys, ret,
                 calls, printed>>

\* encrypted branch: GetKeyRings on the call's CryptoInfo
KeyRings ==
  /\ pc = "KeyRings"
  /\ IF cryptoInfo = "nil" THEN Panic /\ UNCHANGED <<errBlock, privateKeyRing, calls>>
                                /\ resp' = [resp EXCEPT !.closed = TRUE]
     ELSE LET ci == heap[cryptoInfo]
              kr == GetKeyRings(ci.PublicKey, ci.RawCryptoKey, ci.Password)
          IN  /\ errBlock' = kr.err
              /\ calls' = Append(calls, Call("GetKeyRings",
                            <<ci.PublicKey, ci.RawCryptoKey, ci.Password>>, kr.err = Nil))
              /\ privateKeyRing' = kr.ring
              /\ IF kr.err # Nil THEN ReturnClosing("", 0, kr.err)
                 ELSE pc' = "Decrypt" /\ UNCHANGED <<ret, resp>>
  /\ UNCHANGED <<args, crypto, written, sent, meta, urlv, buf, numBytes, err, decrypted,
                 printed>>

\* variant: the error of Decrypt is not looked at
DecryptMessage_Unchecked ==
  /\ pc = "Decrypt"
  /\ LET d == Decrypt(privateKeyRing, buf)
     IN  /\ errBlock' = d.err
         /\ decrypted' = d.plain
         /\ privateKeyRing' = [privateKeyRing EXCEPT !.cleared = TRUE]
         /\ calls' = calls \o <<Call("Decrypt", <<>>, d.err = Nil),
                                Call("ClearPrivateParams", <<>>, TRUE)>>
         /\ pc' = "CopyPlaintext"
         /\ UNCHANGED <<ret, resp>>
  /\ UNCHANGED <<args, crypto, written, sent, meta, urlv, buf, numBytes, err, printed>>

\* encrypted branch: Decrypt, then ClearPrivateParams
DecryptMessage ==
  /\ pc = "Decrypt"
  /\ LET d == Decrypt(privateKeyRing, buf)
     IN  /\ errBlock' = d.err
         /\ decrypted' = d.plain
         /\ IF d.err # Nil
            THEN /\ ReturnClosing("", 0, d.err)
                 /\ UNCHANGED privateKeyRing
                 /\ calls' = Append(calls, Call("Decrypt", <<>>, FALSE))
            ELSE /\ privateKeyRing' = [privateKeyRing EXCEPT !.cleared = TRUE]
                 /\ calls' = calls \o <<Call("Decrypt", <<>>, TRUE),
                                        Call("ClearPrivateParams", <<>>, TRUE)>>
                 /\ pc' = "CopyPlaintext"
                 /\ UNCHANGED <<ret, resp>>
  /\ UNCHANGED <<args, crypto, written, sent, meta, urlv, buf, numBytes, err, printed>>

\* encrypted branch: io.Copy(writer, decrypted.NewReader())
CopyPlaintext ==
  /\ pc = "CopyPlaintext"
  /\ LET c == IoCopy(decrypted, NoFail, writerLimit)
     IN  /\ numBytes' = c.n
         /\ errBlock' = c.err
         /\ written' = written \o c.out
  /\ pc' = "Finish"
  /\ UNCHANGED <<args, crypto, sent, meta, urlv, body, err, keys, ret, calls, printed>>

\* variant: the plain branch copies the (empty) buffer instead of the body
CopyBody_FromBuf ==
  /\ pc = "CopyBody"
  /\ LET c == IoCopy(buf, NoFail, writerLimit)
     IN  /\ numBytes' = c.n
         /\ err' = c.err
         /\ written' = written \o c.out
  /\ pc' = "Finish"
  /\ UNCHANGED <<args, crypto, sent, meta, urlv, body, errBlock, keys, ret, calls,
                 printed>>

\* plain branch: io.Copy(writer, resp.Body)
CopyBody ==
  /\ pc = "CopyBody"
  /\ LET c == IoCopy(resp.body, resp.failAt, writerLimit)
     IN  /\ numBytes' = c.n
         /\ err' = c.err
         /\ written' = written \o c.out
  /\ pc' = "Finish"
  /\ UNCHANGED <<args, crypto, sent, meta, urlv, body, errBlock, keys, ret, calls,
                 printed>>

\* the final error check and the successful return
Finish ==
  /\ pc = "Finish"
  /\ IF err # Nil THEN ReturnClosing("", 0, err)
     ELSE ReturnClosing(name, numBytes, Nil)
  /\ UNCHANGED <<args, crypto, written, sent, meta, urlv, buf, numBytes, errs, keys,
                 calls, printed>>

\* --------------------------------------------------------- ActionFilesList
FilesGetChoices ==
  [list |-> {JStr("x"), JArr(<<>>), JArr(<<JObj(GoodFileInfo(FALSE))>>)}]

FilesGetResults == {m \in MapsOver(FilesGetChoices) : WellTyped(FilesGetChoices, m)}

GoodFilesGet == [list |-> JArr(<<JObj(GoodFileInfo(FALSE))>>)]

FilesGetReplies == ApiReplies(FilesGetResults, {GoodFilesGet})

DiskIds == {"", "d1"}

PrintError(text) == [stream |-> "error", text |-> text]
PrintTable(rows) == [stream |-> "table", text |-> rows]

\* MapToStruct[FilesGetResponse](result): the typed list, or an error
MapToStruct(result) ==
  LET l == Get(result, "list")
  IN  IF l.kind = "nil" THEN [err |-> Nil, List |-> <<>>]
      ELSE IF l.kind # "array" THEN [err |-> New("cannot unmarshal"), List |-> <<>>]
      ELSE [err |-> Nil, List |-> l.elems]

\* what ActionFilesList prints for a files.get reply
FilesListOutput(reply) ==
  LET m == MapToStruct(reply.Result)
  IN  IF reply.err # Nil THEN <<PrintError(reply.err)>>
      ELSE IF reply.Code # 0 THEN <<PrintError(New(reply.Message))>>
      ELSE IF m.err # Nil THEN <<PrintError(m.err)>>
      ELSE IF Len(m.List) = 0 THEN <<PrintError(New("File list is empty"))>>
      ELSE <<PrintTable([i \in 1..Len(m.List) |-> StrOf(Get(m.List[i].fields, "name"))])>>

ActionFilesList ==
  /\ pc = "idle"
  /\ \E d \in DiskIds, reply \in FilesGetReplies :
       /\ sent' = Append(sent, RpcMsg(config.Token, "files.get",
                                      [disk |-> JStr(d), offset |-> JNum(0)]))
       /\ filesList' = reply
       /\ printed' = printed \o FilesListOutput(reply)
  /\ pc' = "listed"
  /\ UNCHANGED <<args, crypto, written, name, encrypted, mimeType, disk, urlv, body,
                 numBytes, errs, keys, ret, calls>>

\* ------------------------------------------------------- ActionAskForToken
PrintOut(text) == [stream |-> "out", text |-> text]

\* what terminal.ReadPassword(0) may return
TermReads ==
  {[password |-> pw, err |-> Nil] : pw \in {"", "newtok"}}
    \cup {[password |-> "", err |-> New("inappropriate ioctl for device")]}

ActionAskForToken ==
  /\ pc = "idle"
  /\ \E ni \in BOOLEAN, rd \in TermReads, valid \in BOOLEAN :
       /\ flags' = [flags EXCEPT !.NotInteractive = ni]
       /\ IF config.Token # "" /\ ni
          THEN /\ rd = [password |-> "", err |-> Nil] /\ valid
               /\ pc' = "asked"
               /\ UNCHANGED <<config, printed, calls>>
          ELSE IF rd.err = Nil /\ rd.password # ""
          THEN /\ printed' = printed \o <<PrintOut(<<"Enter your access token">>),
                                            PrintOut(<<"Access token: ">>)>>
               /\ calls' = calls \o <<Call("terminal.ReadPassword", <<rd.password>>, TRUE),
                                      Call("CheckTokenAndAssign", <<rd.password>>, valid)>>
               /\ config' = [config EXCEPT !.Token = rd.password]
               /\ pc' = "asked"
          ELSE IF rd.err = Nil
          THEN \* PrintError(err.Error()) with a nil err
               /\ valid
               /\ printed' = printed \o <<PrintOut(<<"Enter your access token">>),
                                            PrintOut(<<"Access token: ">>)>>
               /\ calls' = Append(calls, Call("terminal.ReadPassword", <<rd.password>>, TRUE))
               /\ pc' = "panic"
               /\ UNCHANGED config
          ELSE /\ valid
               /\ printed' = printed \o <<PrintOut(<<"Enter your access token">>),
                                            PrintOut(<<"Access token: ">>),
                                            PrintError(rd.err)>>
               /\ calls' = Append(calls, Call("terminal.ReadPassword", <<>>, FALSE))
               /\ pc' = "asked"
               /\ UNCHANGED config
  /\ UNCHANGED <<fs, savePath, peer, token, fileId, cryptoArg, writerLimit, caller, crypto,
                 written, sent, meta, urlv, body, numBytes, errs, keys, ret>>

\* ---------------------------------------------------------- ActionDownload
\* os.Stat(path) succeeds
Exists(path) == path \in DOMAIN fs

DownloadPaths == {"", " ", "out", " old ", "dir"}

\* strings.TrimSpace on the save paths above
TrimSpace(str) ==
  CASE str = " " -> ""
    [] str = " old " -> "old"
    [] OTHER -> str

\* the CryptoInfo NewDefaultCryptoInfo() may build from the command line
DefaultInfos ==
  {ZeroInfo,
   [ZeroInfo EXCEPT !.Password = "pw"],
   [ZeroInfo EXCEPT !.PublicKey = "pubA", !.RawCryptoKey = "privA"]}

\* the size of the buffer of bufio.NewWriter
defaultBufSize == 4096

\* what has reached the bytes.Buffer behind the bufio.Writer, which is never
\* flushed: io.Copy from the response body goes through ReadFrom straight to
\* the buffer; the decrypted bytes.Reader goes through Write, which passes on
\* only what does not fit the bufio buffer
Flushed(isEncrypted, data) ==
  IF isEncrypted /\ Len(data) <= defaultBufSize THEN <<>> ELSE data

\* ActionDownload up to and including its call of DownloadFile
ActionDownload ==
  /\ pc = "idle"
  /\ \E dp \in DownloadPaths, f \in FileIds, ci \in DefaultInfos :
       /\ flags' = [flags EXCEPT !.DownloadPath = dp, !.Download = f]
       /\ savePath' = TrimSpace(dp)
       /\ IF TrimSpace(dp) = ""
          THEN /\ f = "" /\ ci = ZeroInfo
               /\ printed' = Append(printed, PrintError(New("Save path is required")))
               /\ pc' = "exit"
               /\ UNCHANGED <<token, fileId, cryptoArg, writerLimit, crypto, ret>>
          ELSE /\ Enter(config.Token, f, "caller", ci, NoFail)
               /\ printed' = printed
  /\ caller' = "ActionDownload"
  /\ UNCHANGED <<config, fs, peer, written, sent, meta, urlv, body, numBytes, errs, keys,
                 calls>>

\* where the file goes: inside savePath if that is a directory
Target(path, fileName) ==
  IF Exists(path) /\ fs[path].kind = "dir" THEN (path \o "/") \o fileName ELSE path

\* variant: the file is created whatever DownloadFile returned
ActionDownloadSave_NoErrCheck ==
  /\ pc = "done" /\ caller = "ActionDownload"
  /\ savePath' = Target(savePath, ret.fileName)
  /\ fs' = (savePath' :> File(Flushed(encrypted, written))) @@ fs
  /\ printed' = printed
  /\ pc' = "exit"
  /\ UNCHANGED <<config, flags, peer, token, fileId, cryptoArg, writerLimit, caller, crypto,
                 written, sent, meta, urlv, body, numBytes, errs, keys, ret, calls>>

\* ActionDownload after DownloadFile has returned
ActionDownloadSave ==
  /\ pc = "done" /\ caller = "ActionDownload"
  /\ IF ret.err # Nil
     THEN /\ printed' = Append(printed, PrintError(ret.err))
          /\ UNCHANGED <<fs, savePath>>
     ELSE /\ savePath' = Target(savePath, ret.fileName)
          /\ \E createOK \in BOOLEAN, copyOK \in BOOLEAN :
               /\ ~createOK => copyOK
               /\ fs' = IF createOK
                        THEN (savePath' :>
                                File(IF copyOK THEN Flushed(encrypted, written) ELSE <<>>))
                               @@ fs
                        ELSE fs
               /\ printed' = IF ~createOK
                               THEN Append(printed, PrintError(<<"Failed to create file", savePath'>>))
                             ELSE IF ~copyOK
                               THEN Append(printed, PrintError(<<"Failed to save file", savePath'>>))
                             ELSE printed
  /\ pc' = "exit"
  /\ UNCHANGED <<config, flags, peer, token, fileId, cryptoArg, writerLimit, caller, crypto,
                 written, sent, meta, urlv, body, numBytes, errs, keys, ret, calls>>

\* ----------------------------------------------------------- ActionApiCall
ApiMethods == {"ping", "files.get"}

\* the maps ParseKeyValues(*Params) may hand over
ParamMaps ==
  {NilMap, MapOf(EmptyMap), MapOf("a" :> JStr("1")), MapOf("token" :> JStr("other")),
   MapOf(("token" :> JStr("other")) @@ ("a" :> JStr("1"))), MapOf("token" :> JNum(5))}

ApiCallReplies == ApiReplies({EmptyMap, "pong" :> JBool(TRUE)}, {})

\* GetActualError(resp, err): the transport error, else the error of the reply
GetActualError(reply) ==
  IF reply.err # Nil THEN reply.err
  ELSE IF reply.Code # 0 THEN New(reply.Message)
  ELSE Nil

ActionApiCall ==
  /\ pc = "idle"
  /\ \E method \in ApiMethods, paramsMap \in ParamMaps, reply \in ApiCallReplies :
       /\ flags' = [flags EXCEPT !.Method = method]
       /\ calls' = Append(calls, Call("ApiRequest", <<config.Token, method, paramsMap>>,
                                      reply.err = Nil))
       /\ sent' = Append(sent, RpcMsg(config.Token, method, MakeIfNil(paramsMap)))
       /\ printed' = Append(printed,
                        IF GetActualError(reply) # Nil THEN PrintError(GetActualError(reply))
                        ELSE PrintOut(reply.Result))
  /\ pc' = "apiCalled"
  /\ UNCHANGED <<config, fs, savePath, peer, token, fileId, cryptoArg, writerLimit, caller,
                 crypto, written, meta, urlv, body, numBytes, errs, keys, ret>>

\* ------------------------------------------------------------ ActionUpload
UploadPaths == {"", "a.txt", "docs/a.txt", "dir", "missing"}
UploadNames == {"", "n.txt"}

\* the steps of ActionUpload up to the UploadFile call: the calls made, the
\* error printed (if any), and the name and reader handed to UploadFile
PrepareUpload(isStdIn, upload, uploadName, scanned, openOK) ==
  LET path == IF upload = "" THEN scanned ELSE upload
      scan == IF upload = "" THEN <<Call("ScanOrDefault", <<scanned>>, TRUE)>> ELSE <<>>
      stat == Call("os.Stat", <<path>>, Exists(path))
      open == Call("os.Open", <<path>>, openOK)
      stop(cs, msg) == [calls |-> cs, err |-> New(msg), name |-> "", reader |-> ""]
  IN  IF isStdIn
      THEN IF uploadName = ""
           THEN stop(<<>>, "File name is required for stdin upload. Use -act.upload.name flag")
           ELSE [calls |-> <<>>, err |-> Nil, name |-> uploadName, reader |-> "os.Stdin"]
      ELSE IF path = "" THEN stop(scan, "File path is required")
      ELSE IF ~Exists(path) THEN stop(Append(scan, stat), "Failed to access file")
      ELSE IF fs[path].kind = "dir"
        THEN stop(Append(scan, stat), "Directory uploading is not supported yet")
      ELSE IF ~openOK THEN stop(scan \o <<stat, open>>, "Failed to open file")
      ELSE [calls |-> scan \o <<stat, open>>, err |-> Nil,
            \* file.Name() is the name as presented to os.Open
            name |-> IF uploadName # "" THEN uploadName ELSE path,
            reader |-> path]

ActionUpload ==
  /\ pc = "idle"
  /\ \E isStdIn \in BOOLEAN, upload \in UploadPaths, uploadName \in UploadNames,
        scanned \in {"", "a.txt"}, openOK \in BOOLEAN, d \in DiskIds,
        uploadErr \in {Nil, New("upload failed")} :
       LET u == PrepareUpload(isStdIn, upload, uploadName, scanned, openOK)
       IN  /\ isStdIn => upload = "" /\ openOK
           /\ (isStdIn \/ upload # "") => scanned = ""
           /\ u.err # Nil => uploadErr = Nil
           /\ flags' = [flags EXCEPT !.StdIn = isStdIn, !.Upload = upload,
                                      !.UploadName = uploadName]
           /\ IF u.err # Nil
              THEN /\ calls' = calls \o u.calls
                   /\ printed' = Append(printed, PrintError(u.err))
              ELSE /\ calls' = (calls \o u.calls) \o
                               <<Call("UploadFile", <<config.Token, u.name, "", d, "", u.reader>>,
                                      uploadErr = Nil)>>
                   /\ printed' = IF uploadErr = Nil THEN printed
                                 ELSE Append(printed, PrintError(uploadErr))
  /\ pc' = "uploaded"
  /\ UNCHANGED <<config, fs, savePath, peer, token, fileId, cryptoArg, writerLimit, caller,
                 crypto, written, sent, meta, urlv, body, numBytes, errs, keys, ret>>

Next ==
  \/ DownloadFile
  \/ Lookup
  \/ AuthCheck
  \/ UrlResolve
  \/ Fetch
  \/ ReadBody
  \/ KeyRings
  \/ DecryptMessage
  \/ CopyPlaintext
  \/ CopyBody
  \/ Finish
  \/ ActionFilesList
  \/ ActionAskForToken
  \/ ActionUpload
  \/ ActionApiCall
  \/ ActionDownload
  \/ ActionDownloadSave

Spec == Init /\ [][Next]_vars

\* ------------------------------------- two calls sharing one CryptoInfo
\* The first call runs the actions above; the second call ("peer") is a
\* second activation of DownloadFile that was handed the same pointer. Its
\* steps are cut where it reads the shared object; the replies are kept to
\* one of each kind.
SharedInfos ==
  {ZeroInfo,
   [ZeroInfo EXCEPT !.Password = "pw"],
   [ZeroInfo EXCEPT !.Password = "bad"],
   [ZeroInfo EXCEPT !.PublicKey = "pubA", !.RawCryptoKey = "privA"]}

SharedGetById ==
  {NoResponse, Response(200, 0, "", GoodGetById(TRUE)), Response(200, 0, "", GoodGetById(FALSE))}

SharedDiskKeys == {NoResponse, Response(200, 0, "", GoodDiskKeys)}

SharedMessage == <<1, 0>>

FirstCall ==
  /\ DownloadFile
  /\ fileId' = "f1" /\ cryptoArg' = "caller" /\ writerLimit' = NoFail
  /\ heap'.caller \in SharedInfos

FirstLookup == Lookup /\ filesList' \in SharedGetById

FirstUrlResolve == UrlResolve /\ downloadRequest' \in {NoResponse, Response(200, 0, "", GoodDownload)}

FirstFetch == Fetch /\ resp'.body = SharedMessage /\ resp'.failAt = NoFail

\* the second call is made with the pointer the first call was given
PeerEnter ==
  /\ pc # "idle" /\ caller = "lib" /\ peer.pc = "off"
  /\ peer' = [peer EXCEPT !.pc = "Lookup", !.ptr = cryptoArg]
  /\ UNCHANGED <<pc, config, flags, fs, savePath, token, fileId, cryptoArg, writerLimit,
                 caller, crypto, written, sent, meta, urlv, body, numBytes, errs, keys, ret,
                 calls, printed>>

PeerLookup ==
  /\ peer.pc = "Lookup"
  /\ \E reply \in SharedGetById :
       LET r == ParseGetById(reply)
       IN  peer' = [peer EXCEPT !.pc = IF r.out = "ok" THEN "AuthCheck" ELSE "done",
                                !.encrypted = r.encrypted, !.disk = r.disk, !.err = r.err]
  /\ UNCHANGED <<pc, config, flags, fs, savePath, token, fileId, cryptoArg, writerLimit,
                 caller, crypto, written, sent, meta, urlv, body, numBytes, errs, keys, ret,
                 calls, printed>>

PeerAuthCheck ==
  /\ peer.pc = "AuthCheck"
  /\ LET ci == heap[peer.ptr]
     IN  \E reply \in SharedDiskKeys :
           LET resolved == GetCryptoInfo(ci.Password, reply)
               c == CheckCrypto(peer.encrypted, peer.ptr, ci, resolved)
               n == IF NeedsResolve(peer.encrypted, peer.ptr, ci) THEN 1 ELSE 0
           IN  /\ n = 0 => reply = NoResponse
               /\ heap' = IF c.out = "resolved"
                          THEN StoreResolved(heap, "peer", resolved.info) ELSE heap
               /\ peer' = [peer EXCEPT
                             !.pc = IF c.out = "return" THEN "done" ELSE "Deliver",
                             !.ptr = IF c.out = "resolved" THEN "peer" ELSE @,
                             !.resolves = @ + n,
                             !.err = c.err]
  /\ UNCHANGED <<pc, config, flags, fs, savePath, token, fileId, cryptoArg, writerLimit,
                 caller, cryptoInfo, written, sent, meta, urlv, body, numBytes, errs, keys,
                 ret, calls, printed>>

\* the rest of the second call: files.download, the fetch, and the delivery
PeerDeliver ==
  /\ peer.pc = "Deliver"
  /\ \E netOK \in BOOLEAN :
       LET ci == heap[peer.ptr]
           kr == GetKeyRings(ci.PublicKey, ci.RawCryptoKey, ci.Password)
           d  == Decrypt(kr.ring, SharedMessage)
       IN  peer' = [peer EXCEPT
                      !.pc = "done",
                      !.err = IF ~netOK THEN New("transport error")
                              ELSE IF ~peer.encrypted THEN Nil
                              ELSE IF kr.err # Nil THEN kr.err
                              ELSE d.err,
                      !.written = IF ~netOK THEN <<>>
                                  ELSE IF ~peer.encrypted THEN SharedMessage
                                  ELSE IF kr.err # Nil THEN <<>>
                                  ELSE d.plain]
  /\ UNCHANGED <<pc, config, flags, fs, savePath, token, fileId, cryptoArg, writerLimit,
                 caller, crypto, written, sent, meta, urlv, body, numBytes, errs, keys, ret,
                 calls, printed>>

NextShared ==
  \/ FirstCall
  \/ FirstLookup
  \/ AuthCheck
  \/ FirstUrlResolve
  \/ FirstFetch
  \/ ReadBody
  \/ KeyRings
  \/ DecryptMessage
  \/ CopyPlaintext
  \/ CopyBody
  \/ Finish
  \/ PeerEnter
  \/ PeerLookup
  \/ PeerAuthCheck
  \/ PeerDeliver

SpecShared == Init /\ [][NextShared]_vars

TypeOK ==
  /\ pc \in {"idle", "Lookup", "AuthCheck", "UrlResolve", "Fetch", "ReadBody", "KeyRings",
             "Decrypt", "CopyPlaintext", "CopyBody", "Finish", "done", "panic",
             "listed", "asked", "uploaded", "apiCalled", "exit"}
  /\ caller \in {"none", "lib", "ActionDownload"}
  /\ cryptoInfo \in {"nil", "caller", "fresh"}

\* ------------------------------------------------------------- properties
InCall == caller # "none" /\ pc # "exit"
Looked == InCall /\ pc # "Lookup"

SentMethod(m) == \E i \in 1..Len(sent) : sent[i].typ = "rpc" /\ sent[i].body.method = m
SentGet == \E i \in 1..Len(sent) : sent[i].typ = "get"
Called(fn, ok) == \E i \in 1..Len(calls) : calls[i].fn = fn /\ calls[i].ok = ok

NotFoundText == "file not found or you have not access to it"

\* C1: for an encrypted file, the writer holds bytes only once Decrypt has
\* returned success; when GetKeyRings or Decrypt has failed the call has
\* returned an error and the writer holds no byte.
C1_NoWriteBeforeDecrypt ==
  (InCall /\ encrypted) =>
    /\ written # <<>> => Called("Decrypt", TRUE)
    /\ (Called("GetKeyRings", FALSE) \/ Called("Decrypt", FALSE)) =>
         pc = "done" /\ ret.err # Nil /\ written = <<>>

C1_Witness ==
  /\ pc = "done" /\ encrypted
  /\ Called("Decrypt", TRUE) /\ written # <<>>

\* C2: for an encrypted file and a nil cryptoInfo argument the call stops at
\* the credential check with an error; neither files.download nor the HTTP
\* fetch is ever issued.
C2_NilCryptoInfoStopsBeforeDownload ==
  (InCall /\ encrypted /\ cryptoArg = "nil") =>
    /\ pc \in {"AuthCheck", "done"}
    /\ pc = "done" => ret.err # Nil
    /\ ~SentMethod("files.download") /\ ~SentGet

C2_Witness ==
  /\ pc = "done" /\ encrypted /\ cryptoArg = "nil"
  /\ ret.err = New("file is encrypted and no any crypto cryptoInfo provided")
  /\ Len(sent) = 1

\* a files.getById reply that reports no matching record
NotFoundReply(r) ==
  LET cnt == Get(r.Result, "count")
      l   == Get(r.Result, "list")
  IN  /\ r.err = Nil /\ r.Code = 0
      /\ \/ cnt.kind # "number"
         \/ cnt.kind = "number" /\ cnt.n = 0
         \/ l.kind = "array" /\ Len(l.elems) = 0

\* C3: when files.getById reports count 0, no numeric count, or an empty
\* list, the call returns the not-found error, has sent nothing but the
\* files.getById request, and has written nothing.
C3_NotFoundStops ==
  (Looked /\ NotFoundReply(filesList)) =>
    /\ pc = "done"
    /\ ret = [fileName |-> "", numBytes |-> 0, err |-> New(NotFoundText)]
    /\ Len(sent) = 1 /\ sent[1].body.method = "files.getById"
    /\ written = <<>>

C3_Witness ==
  /\ pc = "done" /\ NotFoundReply(filesList)
  /\ Get(filesList.Result, "count") = JNum(0)
  /\ Get(filesList.Result, "list") = JArr(<<JObj(GoodFileInfo(FALSE))>>)

\* the writer takes n bytes without failing
WriterAccepts(n) == writerLimit = NoFail \/ writerLimit >= n

\* C4: an unencrypted file whose fetch answered 200, whose body was read to
\* the end and whose writer accepted it: the writer holds exactly the body,
\* and the call returned the metadata's name, the body length and no error,
\* with or without a CryptoInfo.
C4_PlainPassthrough ==
  (/\ pc = "done" /\ ~encrypted
   /\ resp.open /\ resp.status = 200 /\ resp.failAt = NoFail
   /\ WriterAccepts(Len(resp.body))) =>
    /\ written = resp.body
    /\ ret = [fileName |-> filesList.Result["list"].elems[1].fields["name"].s,
              numBytes |-> Len(resp.body), err |-> Nil]

C4_Witness ==
  /\ pc = "done" /\ ~encrypted /\ ret.err = Nil
  /\ Len(written) >= 2 /\ written = resp.body
  /\ cryptoArg = "caller" /\ heap.caller.Password # ""

\* the key or OpenPGP code refused
IsCryptoErr(e) ==
  /\ e # Nil
  /\ e[Len(e)] \in {"failed to decrypt private key", "malformed public key",
                    "gopenpgp: unable to decrypt message"}

\* the caller gave only a passphrase, and it unlocks no key the disk may hold
WrongPassOnly ==
  /\ cryptoArg = "caller"
  /\ heap.caller.RawCryptoKey = "" /\ heap.caller.Password # ""
  /\ \A k \in {"encA", "junk"} : ~Unlocks(heap.caller.Password, k)

\* the caller gave a key and a passphrase that does not unlock it
WrongPassRaw ==
  /\ cryptoArg = "caller"
  /\ heap.caller.RawCryptoKey # ""
  /\ ~Unlocks(heap.caller.Password, heap.caller.RawCryptoKey)

\* C5 as stated: with a passphrase that does not unlock the key (only a
\* Password, or a RawCryptoKey too) the call fails, writes nothing, and when
\* it fails with a crypto error the content fetch was performed.
C5_Original ==
  (pc = "done" /\ encrypted /\ (WrongPassOnly \/ WrongPassRaw)) =>
    /\ ret.err # Nil /\ written = <<>>
    /\ IsCryptoErr(ret.err) => SentGet

\* C5 amended: with a RawCryptoKey and a passphrase that does not unlock it the
\* call fails with a crypto error after the content fetch; with only a
\* Password that does not unlock the disk's key the call fails at the
\* credential check, before files.download and the fetch; nothing is written
\* in either case.
C5_WrongPassphrase ==
  /\ (pc = "done" /\ encrypted /\ WrongPassRaw) =>
       /\ ret.err # Nil /\ written = <<>>
       /\ IsCryptoErr(ret.err) => SentGet
       /\ (resp.open /\ resp.status = 200) => IsCryptoErr(ret.err)
  /\ (InCall /\ encrypted /\ WrongPassOnly) =>
       /\ pc \in {"AuthCheck", "done"}
       /\ ~SentMethod("files.download") /\ ~SentGet
       /\ written = <<>>
       /\ pc = "done" => ret.err # Nil /\ ret.err[1] = "failed to get crypto info"

C5_Witness ==
  /\ pc = "done" /\ encrypted /\ WrongPassOnly
  /\ IsCryptoErr(ret.err) /\ ~SentGet

\* C6: a nil error is returned only when the body was read to its end and
\* the whole content (decrypted or plain) reached the writer.
C6_NilErrorOnlyOnFullSuccess ==
  (pc = "done" /\ ret.err = Nil /\ resp.open) =>
    /\ resp.failAt = NoFail
    /\ written = IF encrypted THEN decrypted ELSE resp.body

\* a files.getById result that does not have the expected shape
Malformed(result) ==
  LET l == Get(result, "list")
  IN  \/ l.kind # "array"
      \/ /\ Len(l.elems) >= 1
         /\ \/ l.elems[1].kind # "object"
            \/ \E k \in {"name", "mime", "disk"} :
                 Get(l.elems[1].fields, k).kind # "string"
            \/ Get(l.elems[1].fields, "encrypted").kind # "bool"

\* C7: a files.getById reply of the wrong shape makes the call return an
\* error to its caller, with nothing sent after files.getById.
C7_MalformedReturnsError ==
  (Looked /\ filesList.err = Nil /\ filesList.Code = 0 /\ Malformed(filesList.Result)) =>
    /\ pc = "done" /\ ret.err # Nil
    /\ Len(sent) = 1

\* the passphrases and private keys the call holds
Secrets ==
  {heap.caller.Password, heap.caller.RawCryptoKey, heap.fresh.Password,
   heap.fresh.RawCryptoKey, heap.fresh.EncryptedCryptoKey} \ {""}

NoSecretIn(params) ==
  \A k \in DOMAIN params : params[k].kind = "string" => params[k].s \notin Secrets

\* C8: no outbound request of a DownloadFile call carries the Password or the
\* RawCryptoKey; files.getById and files.download carry exactly the token and
\* the file id, and the content fetch carries no body.
C8_NoSecretLeavesTheProcess ==
  InCall =>
    \A i \in 1..Len(sent) :
      /\ NoSecretIn(sent[i].body.params)
      /\ sent[i].typ = "rpc" /\ sent[i].body.method \in {"files.getById", "files.download"}
           => sent[i].body.params = [file |-> JStr(fileId), token |-> JStr(token)]
      /\ sent[i].typ = "get" => sent[i].body.params = EmptyMap /\ sent[i].url = fileUrl

C8_Witness ==
  /\ pc = "done" /\ encrypted /\ ret.err = Nil
  /\ heap.caller.Password = "pw" /\ cryptoInfo = "fresh"
  /\ Len(sent) = 4

\* C9: once the unlocked private key ring was obtained, the call does not
\* return before ClearPrivateParams was called.
C9_KeyRingClearedOnReturn ==
  (pc = "done" /\ privateKeyRing.built) =>
    /\ Called("ClearPrivateParams", TRUE)
    /\ privateKeyRing.cleared

\* C10: a JSON-RPC reply with a non-zero error code ends the operation:
\* DownloadFile returns the server's message with nothing sent afterwards and
\* nothing written, ActionFilesList prints the message and no table; the HTTP
\* status of the reply plays no part.
C10_ErrorCodeStops ==
  /\ (Looked /\ filesList.err = Nil /\ filesList.Code # 0) =>
       /\ pc = "done" /\ ret = [fileName |-> "", numBytes |-> 0,
                                err |-> New(filesList.Message)]
       /\ Len(sent) = 1 /\ written = <<>>
  /\ (InCall /\ downloadRequest.err = Nil /\ downloadRequest.Code # 0) =>
       /\ pc = "done" /\ ret = [fileName |-> "", numBytes |-> 0,
                                err |-> New(downloadRequest.Message)]
       /\ sent[Len(sent)].body.method = "files.download" /\ written = <<>>
  /\ (pc = "listed" /\ filesList.err = Nil /\ filesList.Code # 0) =>
       printed = <<PrintError(New(filesList.Message))>>

C10_Witness ==
  /\ pc = "done" /\ downloadRequest.err = Nil /\ downloadRequest.Code # 0
  /\ downloadRequest.status = 200 /\ downloadRequest.Result = GoodDownload
  /\ ret.err = New("denied")

\* ActionAskForToken has run to its end (or crashed)
Asked == caller = "none" /\ pc \in {"asked", "panic"}

\* the terminal was read, or the prompt was shown
Prompted ==
  \/ Called("terminal.ReadPassword", TRUE) \/ Called("terminal.ReadPassword", FALSE)
  \/ printed # <<>>

\* C11: with the no-interactive flag set ActionAskForToken neither prompts
\* nor reads the terminal, whatever config.Token is.
C11_NoInteractiveNeverPrompts ==
  (Asked /\ flags.NotInteractive) => ~Prompted

\* the terminal read succeeded and returned no character
BlankRead ==
  \E i \in 1..Len(calls) :
    calls[i].fn = "terminal.ReadPassword" /\ calls[i].ok /\ calls[i].args = <<"">>

\* C17: when the token prompt is left blank ActionAskForToken returns
\* normally, validates no token and leaves config.Token as it was.
C17_BlankTokenProceeds ==
  [][(pc = "idle" /\ Asked' /\ BlankRead') =>
       /\ pc' = "asked"
       /\ ~(Called("CheckTokenAndAssign", TRUE) \/ Called("CheckTokenAndAssign", FALSE))'
       /\ config' = config]_vars

\* the UploadFile calls made
UploadCalls == {i \in 1..Len(calls) : calls[i].fn = "UploadFile"}

\* the path ActionUpload settled on
UploadPath ==
  IF flags.Upload # "" THEN flags.Upload
  ELSE IF Called("ScanOrDefault", TRUE)
    THEN calls[CHOOSE i \in 1..Len(calls) : calls[i].fn = "ScanOrDefault"].args[1]
  ELSE ""

\* the last element of a path
BaseName(path) == IF path = "docs/a.txt" THEN "a.txt" ELSE path

\* the guards of C12: UploadFile is called only with a non-empty name, and
\* for a path upload only on a non-empty path that was stat'ed and opened
\* and is no directory
UploadGuarded ==
  \A i \in UploadCalls :
    /\ calls[i].args[2] # ""
    /\ ~flags.StdIn =>
         /\ UploadPath # "" /\ Called("os.Stat", TRUE) /\ Called("os.Open", TRUE)
         /\ fs[UploadPath].kind = "file"

\* C12: UploadFile is called only once a non-empty name and a reader are
\* determined; a path upload sends -act.upload.name if set, otherwise the
\* file's own name.
C12_UploadOnlyWhenPrepared ==
  pc = "uploaded" =>
    /\ UploadGuarded
    /\ \A i \in UploadCalls :
         ~flags.StdIn =>
           calls[i].args[2] = IF flags.UploadName # "" THEN flags.UploadName
                              ELSE BaseName(UploadPath)

\* the requests of the call, in the order they were sent
Methods == [i \in 1..Len(sent) |-> IF sent[i].typ = "get" THEN "GET" ELSE sent[i].body.method]

IsPrefix(a, b) == Len(a) <= Len(b) /\ a = SubSeq(b, 1, Len(a))

\* the reply stored for a JSON-RPC round trip reports success
ReplyOk(reply) == reply.err = Nil /\ reply.Code = 0

Gets == {i \in 1..Len(sent) : sent[i].typ = "get"}

\* C15: a fetch answered with a status other than 200 ends the call with an
\* error; the fetch is not repeated, the body is neither buffered nor
\* decrypted, and nothing is written.
C15_BadStatusStops ==
  (InCall /\ resp.open /\ resp.status # 200) =>
    /\ pc = "done" /\ ret.err = New("bad response status code") /\ ret.numBytes = 0
    /\ Cardinality(Gets) = 1
    /\ buf = <<>> /\ decrypted = <<>>
    /\ ~Called("GetKeyRings", TRUE) /\ ~Called("GetKeyRings", FALSE)
    /\ ~Called("Decrypt", TRUE) /\ ~Called("Decrypt", FALSE)
    /\ written = <<>>

C15_Witness ==
  /\ InCall /\ pc = "done" /\ encrypted
  /\ resp.open /\ resp.status = 404 /\ resp.body # <<>>

\* the GetCryptoInfo calls made
ResolverCalls == {i \in 1..Len(calls) : calls[i].fn = "GetCryptoInfo"}

\* the disk id in the metadata files.getById returned
MetaDisk == Get(filesList.Result, "list").elems[1].fields.disk.s

\* C16: for an encrypted file and a CryptoInfo that is not ready, no
\* files.download is requested before the credential check is through; with
\* neither password nor key the call fails without resolving; with a password
\* only, GetCryptoInfo is called exactly once with the metadata's disk id and
\* the password, its failure is returned, and files.download follows only
\* its success.
C16_AuthCheckBeforeUrlResolve ==
  (InCall /\ pc \in {"Lookup", "AuthCheck"} => ~SentMethod("files.download"))
  /\ (InCall /\ pc \notin {"Lookup", "AuthCheck"} /\ encrypted /\ cryptoArg = "caller"
        /\ ~IsCryptoReady(heap.caller)) =>
       LET ci == heap.caller
       IN  /\ (ci.Password = "" /\ ci.RawCryptoKey = "") =>
                /\ pc = "done"
                /\ ret.err = New("file is encrypted and no password or keys provided")
                /\ ResolverCalls = {} /\ ~SentMethod("disk key material")
                /\ ~SentMethod("files.download")
           /\ (ci.Password # "" /\ ci.RawCryptoKey = "") =>
                /\ Cardinality(ResolverCalls) = 1
                /\ \A i \in ResolverCalls :
                     /\ calls[i].args = <<token, MetaDisk, ci.Password>>
                     /\ ~calls[i].ok =>
                          /\ pc = "done" /\ Len(ret.err) >= 2
                          /\ Head(ret.err) = "failed to get crypto info"
                          /\ ~SentMethod("files.download")
                /\ SentMethod("files.download") => Called("GetCryptoInfo", TRUE)

C16_Witness ==
  /\ InCall /\ encrypted /\ cryptoArg = "caller" /\ heap.caller.Password = "pw"
  /\ heap.caller.RawCryptoKey = "" /\ Called("GetCryptoInfo", TRUE)
  /\ SentMethod("files.download")

\* C18: a call with an empty file id returns an error at once: no request,
\* no fetch, no use of the CryptoInfo, nothing written.
C18_EmptyFileIdStops ==
  (InCall /\ fileId = "") =>
    /\ pc = "done" /\ ret = [fileName |-> "", numBytes |-> 0, err |-> New("file id is required")]
    /\ sent = <<>> /\ ~resp.open
    /\ calls = <<>> /\ cryptoInfo = cryptoArg /\ heap.fresh = ZeroInfo
    /\ written = <<>>

C18_Witness ==
  /\ InCall /\ fileId = "" /\ pc = "done"
  /\ cryptoArg = "caller" /\ heap.caller.Password = "pw"

\* C13: the body ApiRequest sends is {method, params}; params.token is the
\* caller's params["token"] if the map has one and the token argument
\* otherwise (also for a nil map); every other entry is sent unchanged.
C13_TokenInParamsWins ==
  pc = "apiCalled" =>
    LET tok    == calls[1].args[1]
        method == calls[1].args[2]
        given  == calls[1].args[3]
        P      == IF given.nil THEN EmptyMap ELSE given.m
        b      == sent[1].body
    IN  /\ Len(sent) = 1 /\ sent[1].typ = "rpc"
        /\ DOMAIN b = {"method", "params"} /\ b.method = method
        /\ DOMAIN b.params = DOMAIN P \cup {"token"}
        /\ b.params["token"] = IF "token" \in DOMAIN P THEN P["token"] ELSE JStr(tok)
        /\ \A k \in DOMAIN P : b.params[k] = P[k]

C13_Witness ==
  /\ pc = "apiCalled" /\ calls[1].args[1] = "tok"
  /\ ~calls[1].args[3].nil /\ DOMAIN calls[1].args[3].m = {"token", "a"}
  /\ sent[1].body.params["token"] = JStr("other")

\* the paths whose entry in the file system differs between two states
Changed(f, g) ==
  {p \in DOMAIN f \cup DOMAIN g : p \notin DOMAIN f \/ p \notin DOMAIN g \/ f[p] # g[p]}

\* C20: ActionDownload creates or truncates a file only once DownloadFile has
\* returned without error; with an empty save path DownloadFile is never
\* called; with a directory as save path the file goes inside it under the
\* name DownloadFile returned.
C20_SaveOnlyAfterSuccess ==
  [][/\ fs' # fs =>
          /\ caller = "ActionDownload" /\ pc = "done" /\ ret.err = Nil
          /\ Changed(fs, fs') =
               {IF savePath \in DOMAIN fs /\ fs[savePath].kind = "dir"
                THEN (savePath \o "/") \o ret.fileName ELSE savePath}
     /\ (caller' = "ActionDownload" /\ TrimSpace(flags'.DownloadPath) = "") =>
          /\ pc' = "exit" /\ ret' = NoRet /\ sent' = <<>> /\ calls' = <<>>
          /\ fs' = FS0
     /\ (caller' = "ActionDownload" /\ pc' = "exit" /\ ret'.err # Nil) => fs' = FS0]_vars

C20_Witness ==
  /\ caller = "ActionDownload" /\ pc = "exit" /\ flags.DownloadPath = "dir"
  /\ "dir/report.pdf" \in DOMAIN fs /\ ret.err = Nil /\ ret.fileName = "report.pdf"

\* a call that holds the shared, not yet unlocked CryptoInfo with a password
\* and an encrypted file has asked the resolver itself, exactly once
OwnResolution ==
  (heap.caller.RawCryptoKey = "" /\ heap.caller.Password # "") =>
    /\ (pc \notin {"idle", "Lookup", "AuthCheck", "panic"} /\ encrypted) =>
         /\ Cardinality(ResolverCalls) = 1
         /\ cryptoInfo = "fresh" => heap.fresh.Password = heap.caller.Password
    /\ (peer.pc \in {"Deliver", "done"} /\ peer.encrypted) =>
         /\ peer.resolves = 1
         /\ peer.ptr = "peer" => heap.peer.Password = heap.caller.Password

\* a call that was handed unlocked keys uses them as they are
NoResolution ==
  heap.caller.RawCryptoKey # "" =>
    /\ ResolverCalls = {} /\ cryptoInfo \in {"nil", "caller"}
    /\ peer.resolves = 0 /\ peer.ptr \in {"nil", "caller"}

\* C19: DownloadFile never writes to the CryptoInfo its caller passed, on any
\* path, key resolution included; two interleaved calls sharing one CryptoInfo
\* leave it as it was and each resolves and decrypts for itself, whatever the
\* order of their steps.
C19_CallerCryptoInfoUntouched ==
  [][/\ pc # "idle" => heap'.caller = heap.caller
     /\ OwnResolution' /\ NoResolution']_vars

C19_Witness ==
  /\ pc = "done" /\ ret.err = Nil /\ cryptoInfo = "fresh"
  /\ peer.pc = "done" /\ peer.err = Nil /\ peer.ptr = "peer" /\ peer.written # <<>>
  /\ heap.caller = [ZeroInfo EXCEPT !.Password = "pw"]

====
